---------------------------- MODULE Spec2Model ----------------------------
(***************************************************************************)
(* A model of pdf_extractor.py: the line-oriented claims parser            *)
(* (extract_claims_data), the note classifier (_process_notes), the        *)
(* benefits grid normaliser (extract_benefits_data), the orchestration     *)
(* (process_pdf) and the column validator (validate_dataframes).           *)
(*                                                                         *)
(* Text is a sequence of one-character strings, so that the regular        *)
(* expressions, str.split, str.strip, int() and float() are computed on    *)
(* characters, as the Python code computes them.                           *)
(***************************************************************************)
EXTENDS Integers, Sequences, FiniteSets, TLC

VARIABLES
    pc,               \* position of the running call
    doc,              \* the document on disk, as the external readers see it
    lines,            \* extract_claims_data: lines of page 1
    idx,              \* extract_claims_data: index of the next line of the for loop
    current_section,  \* extract_claims_data: current_section
    claims,           \* extract_claims_data: the list claims
    origin,           \* history: origin[k] is the index of the line claims[k] came from
    warnings,         \* history: indices of the lines logged by logger.warning
    sections,         \* history: sections[i] is current_section after line i
    opens,            \* number of pdfplumber.open calls so far
    camelotReads,     \* number of camelot.read_pdf calls so far
    raised,           \* the exception that left the call, "none" while there is none
    raisedIn,         \* the stage the exception was raised in
    grid,             \* extract_benefits_data: rows of tables[-1].df
    benefits,         \* extract_benefits_data: rows of the returned frame
    keptRows,         \* history: indices of the rows of grid that the filter kept
    meta,             \* the dictionary extract_metadata returned
    note_in,          \* _process_notes: <<txt, full_line>>
    note_out,         \* _process_notes: the returned string
    vcols,            \* validate_dataframes: <<claims.columns, ben.columns>>
    diags,            \* validate_dataframes: the logger.error records, in order
    ok,               \* validate_dataframes: the flag ok
    vidx              \* validate_dataframes: index of the next column of the for loop

claimsVars == <<lines, idx, current_section, claims, origin, warnings, sections>>
ioVars == <<opens, camelotReads, raised, raisedIn>>
benVars == <<grid, benefits, keptRows>>
noteVars == <<note_in, note_out>>
valVars == <<vcols, diags, ok, vidx>>

vars == <<pc, doc, meta, claimsVars, ioVars, benVars, noteVars, valVars>>

(***************************************************************************)
(* Bounds of the model.                                                    *)
(***************************************************************************)
MaxLines == 3
MaxFrags == 3
MaxRows == 2
MaxMissing == 2

None == "None"

(***************************************************************************)
(* Characters.                                                             *)
(***************************************************************************)
Digits == {"0", "1", "2", "3", "4", "5", "6", "7", "8", "9"}

Whitespace == {" ", "\t"}

Dashes == {"-", "~"}   \* "~" stands for the en dash of [-–]

UpperChars == <<"A","B","C","D","E","F","G","H","I","J","K","L","M",
                "N","O","P","Q","R","S","T","U","V","W","X","Y","Z">>

LowerChars == <<"a","b","c","d","e","f","g","h","i","j","k","l","m",
                "n","o","p","q","r","s","t","u","v","w","x","y","z">>

UpperSet == {UpperChars[i] : i \in 1..26}

LowerOf == [c \in UpperSet |-> LowerChars[CHOOSE i \in 1..26 : UpperChars[i] = c]]

\* str.lower() on one character
LowerChar(c) == IF c \in UpperSet THEN LowerOf[c] ELSE c

\* str.lower()
Lower(s) == [i \in 1..Len(s) |-> LowerChar(s[i])]

DigitVal(c) ==
    CASE c = "0" -> 0 [] c = "1" -> 1 [] c = "2" -> 2 [] c = "3" -> 3
      [] c = "4" -> 4 [] c = "5" -> 5 [] c = "6" -> 6 [] c = "7" -> 7
      [] c = "8" -> 8 [] c = "9" -> 9

\* the end (exclusive) of the longest run of characters of cs that starts at i
RECURSIVE RunEnd(_, _, _)
RunEnd(s, i, cs) ==
    IF i <= Len(s) /\ s[i] \in cs THEN RunEnd(s, i + 1, cs) ELSE i

\* the end (exclusive) of the longest run of characters outside cs that starts at i
RECURSIVE RunEndNot(_, _, _)
RunEndNot(s, i, cs) ==
    IF i <= Len(s) /\ s[i] \notin cs THEN RunEndNot(s, i + 1, cs) ELSE i

\* str.strip()
Strip(s) ==
    LET b == RunEnd(s, 1, Whitespace)
        LastNonWs == {j \in b..Len(s) : s[j] \notin Whitespace}
        e == IF LastNonWs = {} THEN b - 1
             ELSE CHOOSE j \in LastNonWs : \A k \in LastNonWs : k <= j
    IN SubSeq(s, b, e)

\* str.split(): the maximal runs of non-whitespace characters, in order
RECURSIVE SplitFrom(_, _)
SplitFrom(s, i) ==
    LET b == RunEnd(s, i, Whitespace)
        e == RunEndNot(s, b, Whitespace)
    IN IF b > Len(s) THEN <<>>
       ELSE <<SubSeq(s, b, e - 1)>> \o SplitFrom(s, e)

Split(s) == SplitFrom(s, 1)

\* str.replace(",", "")
RECURSIVE RemoveCommas(_)
RemoveCommas(s) ==
    IF s = <<>> THEN <<>>
    ELSE IF Head(s) = "," THEN RemoveCommas(Tail(s))
    ELSE <<Head(s)>> \o RemoveCommas(Tail(s))

(***************************************************************************)
(* Regular expressions.  A pattern is a sequence of items: a literal       *)
(* character, \s*, \s+, an optional character of a class, one character of *)
(* a class, or \d+.  In every pattern of the program a repeated class is   *)
(* disjoint from what may follow it, so the greedy match is the only one.  *)
(***************************************************************************)
Lit(w) == [i \in 1..Len(w) |-> [k |-> "lit", c |-> w[i]]]
WsStar == <<[k |-> "star", cs |-> Whitespace]>>
WsPlus == <<[k |-> "plus", cs |-> Whitespace]>>
DigitsPlus == <<[k |-> "plus", cs |-> Digits]>>
OptDash == <<[k |-> "opt", cs |-> Dashes]>>
OneDigit == <<[k |-> "one", cs |-> Digits]>>

\* the end (exclusive) of the match of pat[pi..] at s[si..], 0 when there is none;
\* ic is re.I
RECURSIVE MatchFrom(_, _, _, _, _)
MatchFrom(pat, s, pi, si, ic) ==
    IF pi > Len(pat) THEN si
    ELSE LET it == pat[pi] IN
      CASE it.k = "lit" ->
             IF si <= Len(s) /\ (IF ic THEN LowerChar(s[si]) ELSE s[si]) = it.c
             THEN MatchFrom(pat, s, pi + 1, si + 1, ic) ELSE 0
        [] it.k = "one" ->
             IF si <= Len(s) /\ s[si] \in it.cs
             THEN MatchFrom(pat, s, pi + 1, si + 1, ic) ELSE 0
        [] it.k = "opt" ->
             IF si <= Len(s) /\ s[si] \in it.cs
             THEN MatchFrom(pat, s, pi + 1, si + 1, ic)
             ELSE MatchFrom(pat, s, pi + 1, si, ic)
        [] it.k = "star" ->
             MatchFrom(pat, s, pi + 1, RunEnd(s, si, it.cs), ic)
        [] it.k = "plus" ->
             LET e == RunEnd(s, si, it.cs)
             IN IF e > si THEN MatchFrom(pat, s, pi + 1, e, ic) ELSE 0

\* re.match(pat, s)
ReMatch(pat, s, ic) == MatchFrom(pat, s, 1, 1, ic) # 0

\* the start of the leftmost match of pat in s at or after i, 0 when there is none
RECURSIVE SearchFrom(_, _, _, _)
SearchFrom(pat, s, i, ic) ==
    IF i > Len(s) + 1 THEN 0
    ELSE IF MatchFrom(pat, s, 1, i, ic) # 0 THEN i
    ELSE SearchFrom(pat, s, i + 1, ic)

\* the start of the leftmost match of re.search(pat, s), 0 when there is none
SearchStart(pat, s, ic) == SearchFrom(pat, s, 1, ic)

\* re.search(pat, s) is not None
ReSearch(pat, s, ic) == SearchStart(pat, s, ic) # 0

\* m.group(1) of re.search(pat, s), where group 1 is the \d+ at item g of pat
Group1(pat, g, s, ic) ==
    LET i == SearchStart(pat, s, ic)
        b == MatchFrom(SubSeq(pat, 1, g - 1), s, 1, i, ic)
    IN SubSeq(s, b, RunEnd(s, b, Digits) - 1)

(***************************************************************************)
(* int() and float() on a token (which holds no whitespace).               *)
(***************************************************************************)
\* digit (_? digit)*
IntBodyOK(s) ==
    /\ s # <<>>
    /\ s[1] \in Digits /\ s[Len(s)] \in Digits
    /\ \A i \in 1..Len(s) : s[i] \in Digits \cup {"_"}
    /\ \A i \in 1..(Len(s) - 1) : ~(s[i] = "_" /\ s[i + 1] = "_")

RECURSIVE DigitsValue(_, _)
DigitsValue(s, acc) ==
    IF s = <<>> THEN acc
    ELSE IF Head(s) = "_" THEN DigitsValue(Tail(s), acc)
    ELSE DigitsValue(Tail(s), 10 * acc + DigitVal(Head(s)))

NumDigits(s) == Cardinality({i \in 1..Len(s) : s[i] \in Digits})

Signed(s) == s # <<>> /\ s[1] \in {"+", "-"}
Unsigned(s) == IF Signed(s) THEN Tail(s) ELSE s
Sign(s) == IF s # <<>> /\ s[1] = "-" THEN -1 ELSE 1

\* int(s): [ok |-> FALSE] is ValueError
ParseInt(s) ==
    IF IntBodyOK(Unsigned(s))
    THEN [ok |-> TRUE, v |-> Sign(s) * DigitsValue(Unsigned(s), 0)]
    ELSE [ok |-> FALSE, v |-> 0]

FirstIndex(s, c) ==
    LET hits == {i \in 1..Len(s) : s[i] = c}
    IN IF hits = {} THEN 0 ELSE CHOOSE i \in hits : \A j \in hits : i <= j

\* a finite float as mant / 10^scale, without trailing zeros in the fraction
RECURSIVE Normal(_, _)
Normal(mant, scale) ==
    IF mant = 0 THEN [cls |-> "num", mant |-> 0, scale |-> 0]
    ELSE IF scale > 0 /\ mant % 10 = 0 THEN Normal(mant \div 10, scale - 1)
    ELSE IF scale < 0 THEN Normal(mant * 10, scale + 1)
    ELSE [cls |-> "num", mant |-> mant, scale |-> scale]

InfWords == {<<"i","n","f">>, <<"i","n","f","i","n","i","t","y">>}
NanWord == <<"n","a","n">>

\* float(s): [ok |-> FALSE] is ValueError
ParseFloat(s) ==
    LET body == Lower(Unsigned(s))
        ePos == FirstIndex(body, "e")
        mant == IF ePos = 0 THEN body ELSE SubSeq(body, 1, ePos - 1)
        expo == IF ePos = 0 THEN <<>> ELSE SubSeq(body, ePos + 1, Len(body))
        dot == FirstIndex(mant, ".")
        ip == IF dot = 0 THEN mant ELSE SubSeq(mant, 1, dot - 1)
        fp == IF dot = 0 THEN <<>> ELSE SubSeq(mant, dot + 1, Len(mant))
        expOK == ePos = 0 \/ ParseInt(expo).ok
        expV == IF ePos = 0 THEN 0 ELSE ParseInt(expo).v
        bad == [ok |-> FALSE, v |-> [cls |-> "none"]]
    IN IF body \in InfWords THEN [ok |-> TRUE, v |-> [cls |-> "inf", sign |-> Sign(s)]]
       ELSE IF body = NanWord THEN [ok |-> TRUE, v |-> [cls |-> "nan"]]
       ELSE IF /\ (ip = <<>> \/ IntBodyOK(ip))
               /\ (fp = <<>> \/ IntBodyOK(fp))
               /\ ~(ip = <<>> /\ fp = <<>>)
               /\ expOK
            THEN [ok |-> TRUE,
                  v |-> [sign |-> Sign(s)] @@
                        Normal(DigitsValue(ip \o fp, 0), NumDigits(fp) - expV)]
            ELSE bad

(***************************************************************************)
(* extract_claims_data: the for loop over the lines of page 1.             *)
(***************************************************************************)
\* policy\s*year\s*[-–]?\s*2\s*years\s*prior
PatTwoYearsPrior ==
    Lit(<<"p","o","l","i","c","y">>) \o WsStar \o Lit(<<"y","e","a","r">>) \o WsStar \o OptDash \o WsStar \o
    Lit(<<"2">>) \o WsStar \o Lit(<<"y","e","a","r","s">>) \o WsStar \o Lit(<<"p","r","i","o","r">>)

\* prior\s*policy\s*year
PatPriorPolicyYear ==
    Lit(<<"p","r","i","o","r">>) \o WsStar \o Lit(<<"p","o","l","i","c","y">>) \o WsStar \o Lit(<<"y","e","a","r">>)

\* last\s*policy\s*year
PatLastPolicyYear ==
    Lit(<<"l","a","s","t">>) \o WsStar \o Lit(<<"p","o","l","i","c","y">>) \o WsStar \o Lit(<<"y","e","a","r">>)

\* ^\d{6}
PatSixDigits == OneDigit \o OneDigit \o OneDigit \o OneDigit \o OneDigit \o OneDigit

SectionLabels == {"2 years Prior", "Prior Policy Year", "Last Policy Year"}

\* NextSection with the elif chain in the reverse order
NextSection_LastFirst(cur, line) ==
    IF ReSearch(PatLastPolicyYear, line, TRUE) THEN "Last Policy Year"
    ELSE IF ReSearch(PatPriorPolicyYear, line, TRUE) THEN "Prior Policy Year"
    ELSE IF ReSearch(PatTwoYearsPrior, line, TRUE) THEN "2 years Prior"
    ELSE cur

\* the if / elif / elif on the three header patterns
NextSection(cur, line) ==
    IF ReSearch(PatTwoYearsPrior, line, TRUE) THEN "2 years Prior"
    ELSE IF ReSearch(PatPriorPolicyYear, line, TRUE) THEN "Prior Policy Year"
    ELSE IF ReSearch(PatLastPolicyYear, line, TRUE) THEN "Last Policy Year"
    ELSE cur

\* SectionActive without the guard on current_section
SectionActive_Always(cur) == TRUE

\* the negation of "if not current_section: continue"
SectionActive(cur) == cur # None

\* re.match(r"^\d{6}", line)
IsDataLine(line) == ReMatch(PatSixDigits, line, FALSE)

\* the dictionary built inside the try; [ok |-> FALSE] is the ValueError that
\* int() or float() raises before claims.append is reached
ParseClaim(parts, section, m) ==
    LET lives == ParseInt(parts[2])
        count == ParseInt(parts[3])
        paid == ParseFloat(RemoveCommas(parts[4]))
        vat == ParseFloat(RemoveCommas(parts[5]))
    IN IF lives.ok /\ count.ok /\ paid.ok /\ vat.ok
       THEN [ok |-> TRUE,
             rec |-> [Monthly_Claims |-> parts[1],
                      Number_of_Insured_Lives |-> lives.v,
                      Number_of_Claims |-> count.v,
                      Amount_of_Paid_Claims |-> paid.v,
                      Amount_of_Paid_Claims_VAT |-> vat.v,
                      Policy_Year |-> section,
                      End_Date |-> m.end_date,
                      Class |-> m.class,
                      Overall_Limit |-> m.overall_limit]]
       ELSE [ok |-> FALSE, rec |-> <<>>]

\* what one iteration of the loop does with the stripped line under section sec:
\* "append" a record, "warn" (ValueError caught), or "skip"
LineOutcome(line, sec, m) ==
    LET parts == Split(line) IN
    IF ~SectionActive(sec) THEN [do |-> "skip"]
    ELSE IF ~IsDataLine(line) THEN [do |-> "skip"]
    ELSE IF Len(parts) < 5 THEN [do |-> "skip"]
    ELSE IF Strip(parts[4]) = <<>> \/ Strip(parts[5]) = <<>> THEN [do |-> "skip"]
    ELSE LET r == ParseClaim(parts, sec, m)
         IN IF r.ok THEN [do |-> "append", rec |-> r.rec] ELSE [do |-> "warn"]

\* ProcessLine with the data line parsed before the header patterns are tried
ProcessLine_HeaderAfterData ==
    /\ pc = "claims_loop"
    /\ idx <= Len(lines)
    /\ \E line \in {Strip(lines[idx])} :
       \E sec \in {NextSection(current_section, line)} :
       \E out \in {LineOutcome(line, current_section, meta)} :
          /\ current_section' = sec
          /\ sections' = Append(sections, sec)
          /\ claims' = IF out.do = "append" THEN Append(claims, out.rec) ELSE claims
          /\ origin' = IF out.do = "append" THEN Append(origin, idx) ELSE origin
          /\ warnings' = IF out.do = "warn" THEN Append(warnings, idx) ELSE warnings
    /\ idx' = idx + 1
    /\ UNCHANGED <<pc, doc, meta, lines, ioVars, benVars, noteVars, valVars>>

\* one iteration of "for line in lines"
ProcessLine ==
    /\ pc = "claims_loop"
    /\ idx <= Len(lines)
    /\ \E line \in {Strip(lines[idx])} :
       \E sec \in {NextSection(current_section, line)} :
       \E out \in {LineOutcome(line, sec, meta)} :
          /\ current_section' = sec
          /\ sections' = Append(sections, sec)
          /\ claims' = IF out.do = "append" THEN Append(claims, out.rec) ELSE claims
          /\ origin' = IF out.do = "append" THEN Append(origin, idx) ELSE origin
          /\ warnings' = IF out.do = "warn" THEN Append(warnings, idx) ELSE warnings
    /\ idx' = idx + 1
    /\ UNCHANGED <<pc, doc, meta, lines, ioVars, benVars, noteVars, valVars>>

\* the loop is over: pd.DataFrame(claims, columns=required_cols) is returned
ClaimsReturn ==
    /\ pc = "claims_loop"
    /\ idx > Len(lines)
    /\ pc' = "claims_done"
    /\ UNCHANGED <<doc, meta, claimsVars, ioVars, benVars, noteVars, valVars>>

(***************************************************************************)
(* The lines the claims loop is run on.                                    *)
(***************************************************************************)
L_Last == <<"L","a","s","t"," ","P","o","l","i","c","y"," ","Y","e","a","r">>
L_Prior == <<"P","R","I","O","R"," ","P","O","L","I","C","Y"," ","Y","E","A","R">>
L_Two == <<"P","o","l","i","c","y"," ","Y","e","a","r"," ","-"," ","2"," ","y","e","a","r","s"," ","p","r","i","o","r">>
L_LastTwo == <<"l","a","s","t"," ","p","o","l","i","c","y","y","e","a","r","~","2","y","e","a","r","s"," ","p","r","i","o","r">>
L_Data == <<" "," ","1","2","3","4","5","6"," ","1","0"," ","2"," ","1",",","0","0","0",".","5","0"," ","4"," ">>
L_PriorData == <<"1","2","3","4","5","6"," ","7"," ","0"," ",".","5"," ","1","e","1"," ","p","r","i","o","r"," ","p","o","l","i","c","y"," ","y","e","a","r">>
L_Neg == <<"1","2","3","4","5","6"," ","-","5"," ","-","1"," ","3"," ","4">>
L_Short == <<"1","2","3","4","5","6"," ","1"," ","2"," ","3">>
L_BadInt == <<"1","2","3","4","5","6"," ","1"," ","x"," ","3"," ","4">>
L_BadFloat == <<"1","2","3","4","5","6"," ","1"," ","2"," ","3"," ","1",".","2",".","3">>
L_Nan == <<"1","2","3","4","5","6"," ","1"," ","2"," ","n","a","n"," ","4">>
L_Total == <<"T","o","t","a","l"," ","1"," ","2"," ","3"," ","4">>

LinePool == {L_Last, L_Prior, L_Two, L_LastTwo, L_Data, L_PriorData, L_Neg,
             L_Short, L_BadInt, L_BadFloat, L_Nan, L_Total}

Range(f) == {f[k] : k \in DOMAIN f}

SeqsUpTo(S, n) == UNION {[1..k -> S] : k \in 0..n}

\* a value that may be None: <<>> is None, <<v>> is the value v
Absent == <<>>
Got(v) == <<v>>

\* the defaults of extract_metadata
DefaultMeta ==
    [group_number |-> Absent, overall_limit |-> 1000000, policy_expiry |-> Absent,
     end_date |-> <<2023, 2, 16>>, class |-> <<"B">>, deductible |-> Absent]

NoDoc == [exists |-> TRUE]

\* the variables of the calls that are not running
IdleClaims ==
    /\ lines = <<>> /\ idx = 1 /\ current_section = None /\ claims = <<>>
    /\ origin = <<>> /\ warnings = <<>> /\ sections = <<>>
IdleIO == opens = 0 /\ camelotReads = 0 /\ raised = "none" /\ raisedIn = "none"
IdleBenefits == grid = <<>> /\ benefits = <<>> /\ keptRows = <<>>
IdleNotes == note_in = <<>> /\ note_out = None
IdleValidate == vcols = <<{}, {}>> /\ diags = <<>> /\ ok = TRUE /\ vidx = 1

\* extract_claims_data at "current_section, lives_start = None, 0", on any lines
Init ==
    /\ pc = "claims_loop"
    /\ lines \in SeqsUpTo(LinePool, MaxLines)
    /\ idx = 1 /\ current_section = None /\ claims = <<>>
    /\ origin = <<>> /\ warnings = <<>> /\ sections = <<>>
    /\ doc = NoDoc /\ meta = DefaultMeta
    /\ IdleIO /\ IdleBenefits /\ IdleNotes /\ IdleValidate

Next == ProcessLine \/ ClaimsReturn

Spec == Init /\ [][Next]_vars

(***************************************************************************)
(* _process_notes.                                                         *)
(***************************************************************************)
\* paid\s+(\d+)\s*%   (group 1 is item 6)
PatPaid == Lit(<<"p","a","i","d">>) \o WsPlus \o DigitsPlus \o WsStar \o Lit(<<"%">>)

\* (\d+)\s*%\s*up\s*to   (group 1 is item 1)
PatUpTo == DigitsPlus \o WsStar \o Lit(<<"%">>) \o WsStar \o Lit(<<"u","p">>) \o WsStar \o Lit(<<"t","o">>)

\* (\d+)\s*%   (group 1 is item 1)
PatBare == DigitsPlus \o WsStar \o Lit(<<"%">>)

Yes == <<"y","e","s">>
NoInfo == <<"N","o"," ","i","n","f","o">>
Percent == <<"%">>

\* f"{txt} {full_line}".lower()
Combined(txt, full_line) == Lower(txt \o << " " >> \o full_line)

\* _process_notes with the bare percentage probed first
ProcessNotes_BareFirst(txt, full_line) ==
    LET combined == Combined(txt, full_line) IN
    IF ReSearch(PatBare, combined, FALSE)
    THEN Group1(PatBare, 1, combined, FALSE) \o Percent
    ELSE IF ReSearch(PatUpTo, combined, FALSE)
    THEN Group1(PatUpTo, 1, combined, FALSE) \o Percent
    ELSE IF ReSearch(PatPaid, combined, FALSE)
    THEN Group1(PatPaid, 6, combined, FALSE) \o Percent
    ELSE IF ReSearch(Lit(<<"c","e","s","a","r","e","a","n">>), combined, FALSE) THEN Yes
    ELSE NoInfo

\* _process_notes(txt, full_line)
ProcessNotes(txt, full_line) ==
    LET combined == Combined(txt, full_line) IN
    IF ReSearch(PatPaid, combined, FALSE)
    THEN Group1(PatPaid, 6, combined, FALSE) \o Percent
    ELSE IF ReSearch(PatUpTo, combined, FALSE)
    THEN Group1(PatUpTo, 1, combined, FALSE) \o Percent
    ELSE IF ReSearch(PatBare, combined, FALSE)
    THEN Group1(PatBare, 1, combined, FALSE) \o Percent
    ELSE IF ReSearch(Lit(<<"c","e","s","a","r","e","a","n">>), combined, FALSE) THEN Yes
    ELSE NoInfo

\* a call of _process_notes returns
ClassifyNote ==
    /\ pc = "notes_call"
    /\ note_out' = ProcessNotes(note_in[1], note_in[2])
    /\ pc' = "notes_done"
    /\ UNCHANGED <<doc, meta, claimsVars, ioVars, benVars, note_in, valVars>>

\* the pieces the remark texts are made of
FragPool == {<<"p","a","i","d"," ","5","0","%"," ","u","p"," ","t","o">>, <<"3","0","%">>, <<"P","A","I","D"," ">>, <<"p","a","i","d">>, <<"7"," ","%">>, <<" ","u","p"," ","t","o">>,
             <<"C","e","s","a","r","e","a","n">>, <<"5">>, <<"%">>, <<"x">>}

RECURSIVE Flatten(_)
Flatten(ss) == IF ss = <<>> THEN <<>> ELSE Head(ss) \o Flatten(Tail(ss))

NoteTexts == {Flatten(fs) : fs \in SeqsUpTo(FragPool, MaxFrags)}

\* _process_notes as extract_benefits_data calls it: self._process_notes(x, x)
InitNotes ==
    /\ pc = "notes_call"
    /\ \E x \in NoteTexts : note_in = <<x, x>>
    /\ note_out = None
    /\ doc = NoDoc /\ meta = DefaultMeta
    /\ IdleClaims /\ IdleIO /\ IdleBenefits /\ IdleValidate

NextNotes == ClassifyNote

SpecNotes == InitNotes /\ [][NextNotes]_vars

(***************************************************************************)
(* extract_benefits_data, from "ben_df.columns = [...]" to the return.     *)
(***************************************************************************)
\* ben_df["Number_of_Claims"].str.match(r"\d+"): re.match, anchored at the
\* start of the cell only
KeepRow(row) == ReMatch(DigitsPlus, row.Number_of_Claims, FALSE)

\* ben_df[col].str.replace(",", "").astype(float, errors="ignore") on the
\* cells of one column: every cell as a float, or, when one cell fails, the
\* column of strings as it was after the replace
AsFloatColumn(cells) ==
    LET stripped == [i \in 1..Len(cells) |-> RemoveCommas(cells[i])]
    IN IF \A i \in 1..Len(cells) : ParseFloat(stripped[i]).ok
       THEN [i \in 1..Len(cells) |-> ParseFloat(stripped[i]).v]
       ELSE stripped

\* the indices of the rows of g that the filter keeps, in order
RECURSIVE KeptIndices(_, _)
KeptIndices(g, i) ==
    IF i > Len(g) THEN <<>>
    ELSE IF KeepRow(g[i]) THEN <<i>> \o KeptIndices(g, i + 1)
    ELSE KeptIndices(g, i + 1)

\* the frame extract_benefits_data returns for the grid g
NormalizeGrid(g, m) ==
    LET kept == KeptIndices(g, 1)
        counts == AsFloatColumn([k \in 1..Len(kept) |-> g[kept[k]].Number_of_Claims])
        amounts == AsFloatColumn([k \in 1..Len(kept) |-> g[kept[k]].Amount_of_Claims])
        vats == AsFloatColumn([k \in 1..Len(kept) |-> g[kept[k]].Amount_of_Claims_VAT])
    IN [k \in 1..Len(kept) |->
          [Benefit_Sama |-> g[kept[k]].Benefit_Sama,
           Number_of_Claims |-> counts[k],
           Amount_of_Claims |-> amounts[k],
           Amount_of_Claims_VAT |-> vats[k],
           Notes |-> ProcessNotes(g[kept[k]].Notes_raw, g[kept[k]].Notes_raw),
           Policy_Year |-> "Last Policy Year",
           End_Date |-> m.end_date,
           Class |-> m.class,
           Overall_Limit |-> m.overall_limit]]

\* the filter, the notes, the conversions and the column selection
BenefitsNormalize ==
    /\ pc = "benefits_normalize"
    /\ benefits' = NormalizeGrid(grid, meta)
    /\ keptRows' = KeptIndices(grid, 1)
    /\ pc' = "benefits_done"
    /\ UNCHANGED <<doc, meta, claimsVars, ioVars, grid, noteVars, valVars>>

\* the cells the grids are made of
CountCells == {<<"1","2">>, <<"T","o","t","a","l">>, <<"1","2","a","b","c">>, <<>>, <<"7">>}
AmountCells == {<<<<"1",",","0","0","0",".","5">>, <<"5","0">>>>, <<<<"n","/","a">>, <<"5">>>>}
NoteCells == {<<"P","a","i","d"," ","5","0","%"," ","u","p"," ","t","o"," ","3","0","%">>, <<"x">>}

RowPool ==
    {[Benefit_Sama |-> <<"D","e","n","t","a","l">>, Number_of_Claims |-> c,
      Amount_of_Claims |-> a[1], Amount_of_Claims_VAT |-> a[2], Notes_raw |-> n] :
        c \in CountCells, a \in AmountCells, n \in NoteCells}

\* extract_benefits_data once tables[-1].df has its five column names
InitBenefits ==
    /\ pc = "benefits_normalize"
    /\ grid \in SeqsUpTo(RowPool, MaxRows)
    /\ benefits = <<>> /\ keptRows = <<>>
    /\ doc = NoDoc /\ meta = DefaultMeta
    /\ IdleClaims /\ IdleIO /\ IdleNotes /\ IdleValidate

NextBenefits == BenefitsNormalize

SpecBenefits == InitBenefits /\ [][NextBenefits]_vars

(***************************************************************************)
(* process_pdf: the existence test, extract_claims_data and                *)
(* extract_benefits_data, each of which calls extract_metadata first.      *)
(* Nothing in process_pdf, extract_claims_data, extract_benefits_data or   *)
(* extract_metadata catches an exception, except the ValueError of one     *)
(* claims line and of strptime.                                            *)
(***************************************************************************)
MonthAbbrevs == <<<<"j","a","n">>, <<"f","e","b">>, <<"m","a","r">>, <<"a","p","r">>, <<"m","a","y">>, <<"j","u","n">>,
                  <<"j","u","l">>, <<"a","u","g">>, <<"s","e","p">>, <<"o","c","t">>, <<"n","o","v">>, <<"d","e","c">>>>

LeapYear(y) == (y % 4 = 0 /\ y % 100 # 0) \/ y % 400 = 0

DaysIn(m, y) ==
    IF m = 2 THEN (IF LeapYear(y) THEN 29 ELSE 28)
    ELSE IF m \in {4, 6, 9, 11} THEN 30 ELSE 31

\* datetime.strptime(e, "%b %d, %Y").strftime("%Y-%m-%d"), for a capture e of
\* (\w+\s+\d+,\s+\d+) given as its word, its day and its year;
\* [ok |-> FALSE] is ValueError
ParseExpiry(e) ==
    LET ms == {m \in 1..12 : MonthAbbrevs[m] = Lower(e.mon)} IN
    IF /\ ms # {}
       /\ e.year >= 1 /\ e.year <= 9999
       /\ e.day >= 1 /\ e.day <= DaysIn(CHOOSE m \in ms : TRUE, e.year)
    THEN [ok |-> TRUE, v |-> <<e.year, CHOOSE m \in ms : TRUE, e.day>>]
    ELSE [ok |-> FALSE, v |-> <<>>]

\* extract_metadata on the document d: the dictionary, or the exception that
\* leaves it.  d.caps holds, for each of the five patterns, group 1 of its
\* match on the text of page 1, Absent where the pattern does not match.
ExtractMetadata(d) ==
    LET c == d.caps IN
    IF ~d.openable THEN [exc |-> "OpenError"]
    ELSE IF ~d.hasPage THEN [exc |-> "IndexError"]
    ELSE IF c.overall_limit # Absent /\ ~ParseInt(RemoveCommas(c.overall_limit[1])).ok
    THEN [exc |-> "ValueError"]
    ELSE
      [exc |-> "none",
       meta |->
         [group_number |-> IF c.group_number = Absent THEN DefaultMeta.group_number
                           ELSE Got(Strip(c.group_number[1])),
          overall_limit |-> IF c.overall_limit = Absent THEN DefaultMeta.overall_limit
                            ELSE ParseInt(RemoveCommas(c.overall_limit[1])).v,
          policy_expiry |-> c.policy_expiry,
          end_date |-> IF c.policy_expiry # Absent /\ ParseExpiry(c.policy_expiry[1]).ok
                       THEN ParseExpiry(c.policy_expiry[1]).v
                       ELSE DefaultMeta.end_date,
          class |-> IF c.class = Absent THEN DefaultMeta.class
                    ELSE Strip(c.class[1]),
          deductible |-> IF c.deductible = Absent THEN DefaultMeta.deductible
                         ELSE Got(Strip(c.deductible[1]))]]

\* process_pdf up to the call of extract_claims_data
ProcessStart ==
    /\ pc = "process_start"
    /\ IF doc.exists
       THEN pc' = "claims_metadata" /\ UNCHANGED <<raised, raisedIn>>
       ELSE pc' = "raised" /\ raised' = "FileNotFoundError" /\ raisedIn' = "locate"
    /\ UNCHANGED <<doc, meta, claimsVars, opens, camelotReads, benVars, noteVars, valVars>>

\* extract_claims_data: meta = self.extract_metadata(pdf_path)
ClaimsMetadata ==
    /\ pc = "claims_metadata"
    /\ opens' = opens + 1
    /\ \E r \in {ExtractMetadata(doc)} :
          IF r.exc = "none"
          THEN pc' = "claims_open" /\ meta' = r.meta /\ UNCHANGED <<raised, raisedIn>>
          ELSE pc' = "raised" /\ raised' = r.exc /\ raisedIn' = "claims" /\ UNCHANGED meta
    /\ UNCHANGED <<doc, claimsVars, camelotReads, benVars, noteVars, valVars>>

\* extract_claims_data: the second pdfplumber.open, and the split into lines
ClaimsOpen ==
    /\ pc = "claims_open"
    /\ opens' = opens + 1
    /\ lines' = doc.lines
    /\ idx' = 1 /\ current_section' = None /\ claims' = <<>>
    /\ pc' = "claims_loop"
    /\ UNCHANGED <<doc, meta, origin, warnings, sections, camelotReads, raised,
                   raisedIn, benVars, noteVars, valVars>>

\* extract_benefits_data: meta = self.extract_metadata(pdf_path)
BenefitsMetadata ==
    /\ pc = "claims_done"
    /\ opens' = opens + 1
    /\ \E r \in {ExtractMetadata(doc)} :
          IF r.exc = "none"
          THEN pc' = "benefits_read" /\ meta' = r.meta /\ UNCHANGED <<raised, raisedIn>>
          ELSE pc' = "raised" /\ raised' = r.exc /\ raisedIn' = "benefits" /\ UNCHANGED meta
    /\ UNCHANGED <<doc, claimsVars, camelotReads, benVars, noteVars, valVars>>

\* extract_benefits_data: camelot.read_pdf, tables[-1].df and the assignment
\* of the five column names
BenefitsRead ==
    /\ pc = "benefits_read"
    /\ camelotReads' = camelotReads + 1
    /\ IF doc.tables = <<>>
       THEN pc' = "raised" /\ raised' = "IndexError" /\ raisedIn' = "benefits"
            /\ UNCHANGED grid
       ELSE IF ~doc.fiveColumns
       THEN pc' = "raised" /\ raised' = "ValueError" /\ raisedIn' = "benefits"
            /\ UNCHANGED grid
       ELSE pc' = "benefits_normalize" /\ grid' = doc.tables[Len(doc.tables)]
            /\ UNCHANGED <<raised, raisedIn>>
    /\ UNCHANGED <<doc, meta, claimsVars, opens, benefits, keptRows, noteVars, valVars>>

\* process_pdf: return {"claims": claims_df, "benefits": ben_df}
ProcessReturn ==
    /\ pc = "benefits_done"
    /\ pc' = "returned"
    /\ UNCHANGED <<doc, meta, claimsVars, ioVars, benVars, noteVars, valVars>>

\* the documents process_pdf is run on
NoCaptures ==
    [group_number |-> Absent, overall_limit |-> Absent, policy_expiry |-> Absent,
     class |-> Absent, deductible |-> Absent]

FullCaptures ==
    [group_number |-> Got(<<"4","7","1","1">>), overall_limit |-> Got(<<"2",",","5","0","0",",","0","0","0">>),
     policy_expiry |-> Got([mon |-> <<"F","e","b">>, day |-> 29, year |-> 2024]),
     class |-> Got(<<"a">>), deductible |-> Got(<<"2","0","%"," ">>)]

CapturePool ==
    {NoCaptures,
     FullCaptures,
     [FullCaptures EXCEPT
        !.policy_expiry = Got([mon |-> <<"F","e","b">>, day |-> 30, year |-> 2024])],
     [FullCaptures EXCEPT
        !.policy_expiry = Got([mon |-> <<"F","e","b","r","u","a","r","y">>, day |-> 1, year |-> 2024])],
     [FullCaptures EXCEPT !.overall_limit = Got(<<",">>)]}

DocLines == {<<>>, <<L_Last, L_Data>>, <<L_Data, L_Two, L_BadInt, L_Neg>>}

Row1 == [Benefit_Sama |-> <<"D","e","n","t","a","l">>, Number_of_Claims |-> <<"1","2">>,
         Amount_of_Claims |-> <<"1",",","0","0","0",".","5">>, Amount_of_Claims_VAT |-> <<"5","0">>,
         Notes_raw |-> <<"P","a","i","d"," ","5","0","%"," ","u","p"," ","t","o"," ","3","0","%">>]

Row2 == [Benefit_Sama |-> <<"T","o","t","a","l">>, Number_of_Claims |-> <<"T","o","t","a","l">>,
         Amount_of_Claims |-> <<"1",",","0","0","0",".","5">>, Amount_of_Claims_VAT |-> <<"5","0">>,
         Notes_raw |-> <<>>]

DocTables == {<<>>, <<<<Row1, Row2>>>>, <<<<Row2>>, <<Row1>>>>}

Documents ==
    [exists : BOOLEAN, openable : BOOLEAN, hasPage : BOOLEAN,
     caps : CapturePool, lines : DocLines, tables : DocTables,
     fiveColumns : BOOLEAN]

\* a call of process_pdf on any document
InitProcess ==
    /\ pc = "process_start"
    /\ doc \in Documents
    /\ meta = DefaultMeta
    /\ IdleClaims /\ IdleIO /\ IdleBenefits /\ IdleNotes /\ IdleValidate

NextProcess ==
    \/ ProcessStart
    \/ ClaimsMetadata
    \/ ClaimsOpen
    \/ ProcessLine
    \/ ClaimsReturn
    \/ BenefitsMetadata
    \/ BenefitsRead
    \/ BenefitsNormalize
    \/ ProcessReturn

SpecProcess == InitProcess /\ [][NextProcess]_vars

(***************************************************************************)
(* validate_dataframes.                                                    *)
(***************************************************************************)
ReqClaims == <<"Monthly_Claims", "Number_of_Insured_Lives", "Number_of_Claims",
               "Amount_of_Paid_Claims", "Amount_of_Paid_Claims_VAT", "Policy_Year",
               "End_Date", "Class", "Overall_Limit">>

ReqBen == <<"Benefit_Sama", "Number_of_Claims", "Amount_of_Claims",
            "Amount_of_Claims_VAT", "Notes", "Policy_Year", "End_Date", "Class",
            "Overall_Limit">>

\* the first loop with a break after the first missing column
CheckClaimsColumn_StopAtFirst ==
    /\ pc = "validate_claims"
    /\ IF vidx > Len(ReqClaims)
       THEN pc' = "validate_benefits" /\ vidx' = 1 /\ UNCHANGED <<diags, ok>>
       ELSE IF ReqClaims[vidx] \notin vcols[1]
       THEN /\ diags' = Append(diags, <<"Missing claims column", ReqClaims[vidx]>>)
            /\ ok' = FALSE
            /\ vidx' = 1 /\ pc' = "validate_benefits"
       ELSE vidx' = vidx + 1 /\ UNCHANGED <<pc, diags, ok>>
    /\ UNCHANGED <<doc, meta, claimsVars, ioVars, benVars, noteVars, vcols>>

\* one iteration of "for col in req_claims", or its end
CheckClaimsColumn ==
    /\ pc = "validate_claims"
    /\ IF vidx > Len(ReqClaims)
       THEN pc' = "validate_benefits" /\ vidx' = 1 /\ UNCHANGED <<diags, ok>>
       ELSE IF ReqClaims[vidx] \notin vcols[1]
       THEN /\ diags' = Append(diags, <<"Missing claims column", ReqClaims[vidx]>>)
            /\ ok' = FALSE
            /\ vidx' = vidx + 1 /\ UNCHANGED pc
       ELSE vidx' = vidx + 1 /\ UNCHANGED <<pc, diags, ok>>
    /\ UNCHANGED <<doc, meta, claimsVars, ioVars, benVars, noteVars, vcols>>

\* one iteration of "for col in req_ben", or "return ok"
CheckBenefitsColumn ==
    /\ pc = "validate_benefits"
    /\ IF vidx > Len(ReqBen)
       THEN pc' = "validate_done" /\ UNCHANGED <<vidx, diags, ok>>
       ELSE IF ReqBen[vidx] \notin vcols[2]
       THEN /\ diags' = Append(diags, <<"Missing benefits column", ReqBen[vidx]>>)
            /\ ok' = FALSE
            /\ vidx' = vidx + 1 /\ UNCHANGED pc
       ELSE vidx' = vidx + 1 /\ UNCHANGED <<pc, diags, ok>>
    /\ UNCHANGED <<doc, meta, claimsVars, ioVars, benVars, noteVars, vcols>>

\* the column sets that lack at most MaxMissing of the required columns
ColumnSets(req) ==
    {Range(req) \ m : m \in {x \in SUBSET Range(req) : Cardinality(x) <= MaxMissing}}

\* a call of validate_dataframes on two frames
InitValidate ==
    /\ pc = "validate_claims"
    /\ vcols \in ColumnSets(ReqClaims) \X ColumnSets(ReqBen)
    /\ diags = <<>> /\ ok = TRUE /\ vidx = 1
    /\ doc = NoDoc /\ meta = DefaultMeta
    /\ IdleClaims /\ IdleIO /\ IdleBenefits /\ IdleNotes

NextValidate == CheckClaimsColumn \/ CheckBenefitsColumn

SpecValidate == InitValidate /\ [][NextValidate]_vars

(***************************************************************************)
(* Properties of the claims loop.                                          *)
(***************************************************************************)
\* what the header patterns, the data-line pattern, str.split, int() and
\* float() say of each line of LinePool
HeaderLabelOf(two, prior, last) ==
    CASE two -> "2 years Prior"
      [] ~two /\ prior -> "Prior Policy Year"
      [] ~two /\ ~prior /\ last -> "Last Policy Year"
      [] OTHER -> None

\* the token denotes a number: digits with an optional sign, thousands
\* separators, decimal point and exponent
IsNumber(t) ==
    /\ ParseFloat(RemoveCommas(t)).ok
    /\ ParseFloat(RemoveCommas(t)).v.cls = "num"

Tokens(line) == Split(Strip(line))

LineFacts ==
    [l \in LinePool |->
        LET two == ReSearch(PatTwoYearsPrior, l, TRUE)
            prior == ReSearch(PatPriorPolicyYear, l, TRUE)
            last == ReSearch(PatLastPolicyYear, l, TRUE)
            toks == Tokens(l)
        IN [two |-> two, prior |-> prior, last |-> last,
            header |-> two \/ prior \/ last,
            label |-> HeaderLabelOf(two, prior, last),
            sixDigits |-> ReMatch(PatSixDigits, Strip(l), FALSE),
            ntokens |-> Len(toks),
            parses |-> /\ Len(toks) >= 5
                       /\ ParseInt(toks[2]).ok /\ ParseInt(toks[3]).ok
                       /\ ParseFloat(RemoveCommas(toks[4])).ok
                       /\ ParseFloat(RemoveCommas(toks[5])).ok,
            numbers |-> /\ Len(toks) >= 5
                        /\ \A p \in 2..5 : IsNumber(toks[p])]]

MatchesTwo(line) == LineFacts[line].two
MatchesPrior(line) == LineFacts[line].prior
MatchesLast(line) == LineFacts[line].last
IsHeader(line) == LineFacts[line].header
HeaderLabel(line) == LineFacts[line].label

\* the label of the last header line among ls[1..i], None when there is none
RECURSIVE LastHeaderLabel(_, _)
LastHeaderLabel(ls, i) ==
    IF i = 0 THEN None
    ELSE IF IsHeader(ls[i]) THEN HeaderLabel(ls[i])
    ELSE LastHeaderLabel(ls, i - 1)

\* the line has the shape of a data line whose four numbers all parse
WellFormedData(line) == LineFacts[line].sixDigits /\ LineFacts[line].parses

\* fewer than 5 tokens, or a token in positions 1 to 4 that is not a number
Malformed(line) == ~LineFacts[line].numbers

\* C1: no record comes from a line that precedes the first header line,
\* whatever the shape of that line
C1_NoRecordBeforeFirstHeader ==
    \A k \in 1..Len(claims) : \E i \in 1..origin[k] : IsHeader(lines[i])

\* a well-formed data line was read before any header, and the loop went on
\* to collect a record from a later line
C1_Witness ==
    /\ pc = "claims_done"
    /\ claims # <<>>
    /\ \E i \in 1..Len(lines) :
          /\ WellFormedData(lines[i])
          /\ \A j \in 1..i : ~IsHeader(lines[j])

\* C2: the Policy_Year of a record from line i is the label of the last header
\* line at index <= i (line i included), and is one of the three labels
C2_PolicyYearIsLastHeaderAtOrBefore ==
    \A k \in 1..Len(claims) :
        /\ claims[k].Policy_Year = LastHeaderLabel(lines, origin[k])
        /\ claims[k].Policy_Year \in SectionLabels

\* a record came from a line that is itself a header, under another section,
\* and a header of a third label follows it
C2_Witness ==
    \E k \in 1..Len(claims) :
        /\ IsHeader(lines[origin[k]])
        /\ origin[k] > 1
        /\ sections[origin[k] - 1] \notin {None, claims[k].Policy_Year}
        /\ origin[k] < Len(lines)
        /\ IsHeader(lines[origin[k] + 1])
        /\ HeaderLabel(lines[origin[k] + 1]) # claims[k].Policy_Year
        /\ pc = "claims_done"

\* C3 as stated: in an active section a line with fewer than 5 tokens or with a
\* token in positions 1 to 4 that is not a number yields no record, and every
\* well-formed data line in an active section yields one
C3_MalformedLineYieldsNoRecord ==
    \A i \in 1..(idx - 1) :
        /\ (sections[i] # None /\ Malformed(lines[i])) => i \notin Range(origin)
        /\ (sections[i] # None /\ WellFormedData(lines[i]) /\ ~Malformed(lines[i]))
              => i \in Range(origin)

\* C9 as stated: the two counts of every record are non-negative
C9_CountsNonNegative ==
    \A k \in 1..Len(claims) :
        /\ claims[k].Number_of_Insured_Lives >= 0
        /\ claims[k].Number_of_Claims >= 0

\* C10: current_section starts as None and after each line is the label of the
\* first header pattern, in the order two-years-prior, prior, last, that the
\* line matches, and is unchanged by a line that matches none
C10_SectionFollowsHeaders ==
    /\ Len(sections) = idx - 1
    /\ current_section = IF sections = <<>> THEN None ELSE sections[Len(sections)]
    /\ \A i \in 1..Len(sections) :
          LET prev == IF i = 1 THEN None ELSE sections[i - 1] IN
          /\ MatchesTwo(lines[i]) => sections[i] = "2 years Prior"
          /\ (~MatchesTwo(lines[i]) /\ MatchesPrior(lines[i]))
                => sections[i] = "Prior Policy Year"
          /\ (~MatchesTwo(lines[i]) /\ ~MatchesPrior(lines[i]) /\ MatchesLast(lines[i]))
                => sections[i] = "Last Policy Year"
          /\ ~IsHeader(lines[i]) => sections[i] = prev

\* a line matching two header patterns set the section, and the data line and
\* the malformed line that followed left it alone
C10_Witness ==
    \E i \in 1..(Len(sections) - 2) :
        /\ MatchesTwo(lines[i]) /\ MatchesLast(lines[i])
        /\ ~IsHeader(lines[i + 1]) /\ (i + 1) \in Range(origin)
        /\ ~IsHeader(lines[i + 2]) /\ (i + 2) \in Range(warnings)
        /\ current_section = "2 years Prior"

(***************************************************************************)
(* Properties of _process_notes.  The matches of the three percentage      *)
(* patterns are stated here position by position, without the matcher.     *)
(***************************************************************************)
Spells(s, i, w) ==
    /\ i >= 1 /\ i + Len(w) - 1 <= Len(s)
    /\ \A j \in 1..Len(w) : s[i + j - 1] = w[j]

IsWsRun(s, a, b) == \A j \in a..b : s[j] \in Whitespace

IsDigitRun(s, a, b) == a <= b /\ \A j \in a..b : s[j] \in Digits

\* s[b+1..] is optional whitespace and then "%" at position p
PercentAfter(s, b, p) == p > b /\ p <= Len(s) /\ s[p] = "%" /\ IsWsRun(s, b + 1, p - 1)

\* "paid" at i, whitespace, the digits s[a..b], optional whitespace, "%"
PaidAt(s, i, a, b) ==
    /\ Spells(s, i, <<"p","a","i","d">>)
    /\ a >= i + 5 /\ IsWsRun(s, i + 4, a - 1)
    /\ IsDigitRun(s, a, b)
    /\ \E p \in (b + 1)..Len(s) : PercentAfter(s, b, p)

\* the digits s[a..b], optional whitespace, "%", then "up" and "to" with
\* optional whitespace before each
UpToAt(s, a, b) ==
    /\ IsDigitRun(s, a, b)
    /\ \E p \in (b + 1)..Len(s) :
          /\ PercentAfter(s, b, p)
          /\ \E u \in (p + 1)..Len(s) :
                /\ IsWsRun(s, p + 1, u - 1) /\ Spells(s, u, <<"u","p">>)
                /\ \E t \in (u + 2)..Len(s) :
                      IsWsRun(s, u + 2, t - 1) /\ Spells(s, t, <<"t","o">>)

\* the digits s[a..b], optional whitespace, "%"
BareAt(s, a, b) ==
    /\ IsDigitRun(s, a, b)
    /\ \E p \in (b + 1)..Len(s) : PercentAfter(s, b, p)

Least(S) == CHOOSE i \in S : \A j \in S : i <= j
Most(S) == CHOOSE i \in S : \A j \in S : i >= j

PaidStarts(s) ==
    {i \in 1..Len(s) : Spells(s, i, <<"p","a","i","d">>) /\
                       \E a \in (i + 5)..Len(s) : \E b \in a..Len(s) : PaidAt(s, i, a, b)}

PaidNumber(s) ==
    LET i == Least(PaidStarts(s))
        a == CHOOSE a \in (i + 5)..Len(s) : \E b \in a..Len(s) : PaidAt(s, i, a, b)
    IN SubSeq(s, a, Most({b \in a..Len(s) : PaidAt(s, i, a, b)}))

UpToStarts(s) ==
    {a \in 1..Len(s) : s[a] \in Digits /\ \E b \in a..Len(s) : UpToAt(s, a, b)}

UpToNumber(s) ==
    LET a == Least(UpToStarts(s))
    IN SubSeq(s, a, Most({b \in a..Len(s) : UpToAt(s, a, b)}))

BareStarts(s) ==
    {a \in 1..Len(s) : s[a] \in Digits /\ \E b \in a..Len(s) : BareAt(s, a, b)}

BareNumber(s) ==
    LET a == Least(BareStarts(s))
    IN SubSeq(s, a, Most({b \in a..Len(s) : BareAt(s, a, b)}))

HasCesarean(s) == \E i \in 1..Len(s) : Spells(s, i, <<"c","e","s","a","r","e","a","n">>)

\* the lower-cased text _process_notes probes
NoteText == Combined(note_in[1], note_in[2])

\* C7: the result is the number of the first of "paid N%", "N% up to", "N%"
\* that matches anywhere in the lower-cased text f"{txt} {full_line}", with
\* "%" appended, wherever the matches of the later patterns are; with no
\* percentage it is "yes" when the text contains "cesarean", else "No info"
C7_FirstPatternInPriorityOrderWins ==
    pc = "notes_done" =>
        \E s \in {NoteText} :
            /\ PaidStarts(s) # {} => note_out = PaidNumber(s) \o Percent
            /\ (PaidStarts(s) = {} /\ UpToStarts(s) # {})
                  => note_out = UpToNumber(s) \o Percent
            /\ (PaidStarts(s) = {} /\ UpToStarts(s) = {} /\ BareStarts(s) # {})
                  => note_out = BareNumber(s) \o Percent
            /\ (PaidStarts(s) = {} /\ UpToStarts(s) = {} /\ BareStarts(s) = {})
                  => note_out = IF HasCesarean(s) THEN Yes ELSE NoInfo

\* the text holds a bare "30%" to the left of "paid 50% up to", and the result
\* is "50%"
C7_Witness ==
    /\ pc = "notes_done"
    /\ note_out = <<"5","0","%">>
    /\ \E i \in 1..Len(NoteText) : \E j \in (i + 1)..Len(NoteText) :
          /\ Spells(NoteText, i, <<"3","0","%">>)
          /\ Spells(NoteText, j, <<"p","a","i","d"," ","5","0","%"," ","u","p"," ","t","o">>)

(***************************************************************************)
(* Properties of extract_benefits_data.                                    *)
(***************************************************************************)
AllDigits(cell) == cell # <<>> /\ \A i \in 1..Len(cell) : cell[i] \in Digits

RECURSIVE AllDigitIndices(_, _)
AllDigitIndices(g, i) ==
    IF i > Len(g) THEN <<>>
    ELSE IF AllDigits(g[i].Number_of_Claims) THEN <<i>> \o AllDigitIndices(g, i + 1)
    ELSE AllDigitIndices(g, i + 1)

\* C5 as stated: the rows of the result are exactly the rows of the grid whose
\* claims-count cell consists only of digits, in the order of the grid
C5_KeptRowsAreAllDigitRows ==
    pc = "benefits_done" =>
        /\ keptRows = AllDigitIndices(grid, 1)
        /\ Len(benefits) = Len(keptRows)
        /\ \A k \in 1..Len(benefits) :
              benefits[k].Benefit_Sama = grid[keptRows[k]].Benefit_Sama

(***************************************************************************)
(* Properties of process_pdf.                                              *)
(***************************************************************************)
\* C4 as stated: the only exceptions that leave process_pdf are those of
\* locating and opening the document, so an exception raised inside the
\* claims extraction does not keep the benefits extraction from running
C4_OnlyOpenFailuresAbort ==
    pc = "raised" => raised \in {"FileNotFoundError", "OpenError"}

\* C8 as stated: pdfplumber.open and camelot.read_pdf are each called at most
\* once during one process_pdf call
C8_ReadersInvokedAtMostOnce == opens <= 1 /\ camelotReads <= 1

(***************************************************************************)
(* Properties of validate_dataframes.                                      *)
(***************************************************************************)
MissingClaims == Range(ReqClaims) \ vcols[1]
MissingBen == Range(ReqBen) \ vcols[2]

Count(seq, x) == Cardinality({i \in 1..Len(seq) : seq[i] = x})

\* C6: the call never raises; it returns False exactly when a required column
\* is absent on either side; and the diagnostics are one per absent column,
\* those of the claims side first and independent of the benefits side
C6_ValidateReportsEveryMissingColumn ==
    /\ raised = "none"
    /\ pc = "validate_done" =>
          /\ (ok = FALSE) <=> (MissingClaims # {} \/ MissingBen # {})
          /\ Len(diags) = Cardinality(MissingClaims) + Cardinality(MissingBen)
          /\ \A c \in Range(ReqClaims) :
                Count(diags, <<"Missing claims column", c>>) =
                    IF c \in MissingClaims THEN 1 ELSE 0
          /\ \A c \in Range(ReqBen) :
                Count(diags, <<"Missing benefits column", c>>) =
                    IF c \in MissingBen THEN 1 ELSE 0
          /\ \A i \in 1..Cardinality(MissingClaims) :
                diags[i][1] = "Missing claims column"

\* the claims frame lacks "Class" and another column, the benefits frame lacks
\* a column too, and the call has returned
C6_Witness ==
    /\ pc = "validate_done"
    /\ "Class" \in MissingClaims /\ Cardinality(MissingClaims) = 2
    /\ MissingBen # {}
    /\ ok = FALSE

=============================================================================
